---- MODULE Spec2Model ----
(***************************************************************************)
(* Model of the candidate-job matching engine of jobpay-agent              *)
(* (app/services/ai_matching_service.py, class AIMatchingService).         *)
(*                                                                         *)
(* Python values are modelled as tagged records:                           *)
(*   None            [kind |-> "none"]                                     *)
(*   a float / int   [kind |-> "num", num |-> n, den |-> d]                *)
(*                   the exact rational n/d in lowest terms, d > 0;        *)
(*                   +inf is 1/0, -inf is -1/0 and NaN is 0/0              *)
(*   a str           [kind |-> "str", chars |-> <<c1, ..., cn>>]           *)
(*   a raised error  [kind |-> "raise", exc |-> "<ExceptionName>"]         *)
(* Arithmetic on "num" values follows IEEE-754 for the special values      *)
(* (inf - inf = NaN, inf / inf = NaN, x / inf = 0, comparisons with NaN    *)
(* are false) and is exact on finite values.                               *)
(***************************************************************************)
EXTENDS Integers, Sequences, FiniteSets, Bags, TLC

(***************************************************************************)
(* Numbers                                                                 *)
(***************************************************************************)
RECURSIVE GCD(_, _)
GCD(a, b) == IF b = 0 THEN a ELSE GCD(b, a % b)

AbsInt(n) == IF n < 0 THEN -n ELSE n

None == [kind |-> "none"]

\* The rational n/d (d # 0) in lowest terms with a positive denominator.
Rat(n, d) ==
    LET g == GCD(AbsInt(n), AbsInt(d))
        s == IF d < 0 THEN -1 ELSE 1
    IN  [kind |-> "num", num |-> s * (n \div g), den |-> s * (d \div g)]

Num(n) == [kind |-> "num", num |-> n, den |-> 1]

\* float('inf')
Inf == [kind |-> "num", num |-> 1, den |-> 0]

NaN == [kind |-> "num", num |-> 0, den |-> 0]

IsNone(x) == x.kind = "none"

IsNum(x) == x.kind = "num"

IsStr(x) == x.kind = "str"

IsRaise(x) == x.kind = "raise"

IsNaN(x) == IsNum(x) /\ x.den = 0 /\ x.num = 0

\* Python truthiness of None, a number or a string (bool(x)).
Truthy(x) ==
    CASE IsNone(x) -> FALSE
      [] IsNum(x)  -> ~(x.num = 0 /\ x.den # 0)
      [] IsStr(x)  -> Len(x.chars) > 0

\* a < b on floats: false when either side is NaN.  Cross-multiplication is
\* exact for finite values and gives the IEEE answer for 1/0, -1/0 and 0/0.
Less(a, b) == a.num * b.den < b.num * a.den

\* a <= b on floats.
LessEq(a, b) == ~IsNaN(a) /\ ~IsNaN(b) /\ a.num * b.den <= b.num * a.den

\* Python's min(a, b): the first argument unless the second is smaller.
PyMin(a, b) == IF Less(b, a) THEN b ELSE a

\* Python's max(a, b): the first argument unless the second is larger.
PyMax(a, b) == IF Less(a, b) THEN b ELSE a

Neg(a) == [kind |-> "num", num |-> -a.num, den |-> a.den]

Abs(a) == [kind |-> "num", num |-> AbsInt(a.num), den |-> a.den]

Add(a, b) ==
    IF IsNaN(a) \/ IsNaN(b) THEN NaN
    ELSE IF a.den = 0 /\ b.den = 0 THEN (IF a.num = b.num THEN a ELSE NaN)
    ELSE IF a.den = 0 THEN a
    ELSE IF b.den = 0 THEN b
    ELSE LET l == (a.den \div GCD(a.den, b.den)) * b.den
         IN  Rat(a.num * (l \div a.den) + b.num * (l \div b.den), l)

Sub(a, b) == Add(a, Neg(b))

Sign(n) == IF n > 0 THEN 1 ELSE IF n < 0 THEN -1 ELSE 0

Mul(a, b) ==
    IF IsNaN(a) \/ IsNaN(b) THEN NaN
    ELSE IF a.den = 0 \/ b.den = 0
         THEN [kind |-> "num", num |-> Sign(a.num) * Sign(b.num), den |-> 0]
    ELSE LET g1 == GCD(AbsInt(a.num), b.den)
             g2 == GCD(AbsInt(b.num), a.den)
         IN  Rat((a.num \div g1) * (b.num \div g2),
                 (a.den \div g2) * (b.den \div g1))

\* a / b for b # 0 (the code divides only by positive ranges and 50000).
Div(a, b) ==
    IF IsNaN(a) \/ IsNaN(b) THEN NaN
    ELSE IF a.den = 0 /\ b.den = 0 THEN NaN
    ELSE IF b.den = 0 THEN Num(0)
    ELSE IF a.den = 0
         THEN [kind |-> "num", num |-> a.num * Sign(b.num), den |-> 0]
    ELSE Mul(a, Rat(b.den, b.num))

\* round(x, 3): the nearest multiple of 1/1000; NaN and the infinities are
\* returned unchanged.  An exact half goes to the even neighbour here; in
\* the code the binary float nearest to the half decides, so the data of
\* the runs below is chosen to produce no exact half.
Round3(x) ==
    IF x.den = 0 THEN x
    ELSE LET n == x.num * 1000
             q == n \div x.den
             r == n - q * x.den
         IN  IF 2 * r < x.den THEN Rat(q, 1000)
             ELSE IF 2 * r > x.den THEN Rat(q + 1, 1000)
             ELSE IF q % 2 = 0 THEN Rat(q, 1000)
             ELSE Rat(q + 1, 1000)

\* 0.0 <= x <= 1.0
InUnit(x) == IsNum(x) /\ LessEq(Num(0), x) /\ LessEq(x, Num(1))

(***************************************************************************)
(* Strings: a str is the sequence of its characters.                       *)
(***************************************************************************)
Str(chars) == [kind |-> "str", chars |-> chars]

\* str.lower() on one character of the model's alphabet.
LowerChar(c) ==
    CASE c = "A" -> "a"
      [] c = "B" -> "b"
      [] c = "T" -> "t"
      [] c = "X" -> "x"
      [] OTHER   -> c

\* str.lower()
Lower(s) == [i \in 1..Len(s) |-> LowerChar(s[i])]

IsSpace(c) == c = " "

\* str.strip(): leading and trailing whitespace removed.
Strip(s) ==
    LET keep == {i \in 1..Len(s) : ~IsSpace(s[i])}
    IN  IF keep = {} THEN <<>>
        ELSE LET lo == CHOOSE i \in keep : \A j \in keep : i <= j
                 hi == CHOOSE i \in keep : \A j \in keep : j <= i
             IN  SubSeq(s, lo, hi)

\* needle in hay (Python's substring test; the empty string is in every string).
Contains(hay, needle) ==
    \E i \in 0..(Len(hay) - Len(needle)) :
        SubSeq(hay, i + 1, i + Len(needle)) = needle

\* set(s.split()): the maximal runs of non-whitespace characters.
SplitWords(s) ==
    {SubSeq(s, i, j) : <<i, j>> \in
        {p \in (1..Len(s)) \X (1..Len(s)) :
            /\ p[1] <= p[2]
            /\ \A k \in p[1]..p[2] : ~IsSpace(s[k])
            /\ (p[1] = 1 \/ IsSpace(s[p[1] - 1]))
            /\ (p[2] = Len(s) \/ IsSpace(s[p[2] + 1]))}}

\* str.lower() on the skill names of the model.
LowerSkill(s) ==
    CASE s = "Python" -> "python"
      [] s = "SQL"    -> "sql"
      [] OTHER        -> s

(***************************************************************************)
(* Dimension scorers                                                       *)
(***************************************************************************)
\* A faulty variant of the location scorer: containment is tested in one direction.
CalculateLocationScoreOneWay(job_location, candidate_location) ==
    IF ~Truthy(job_location) \/ ~Truthy(candidate_location) THEN Rat(1, 2)
    ELSE LET job_loc == Strip(Lower(job_location.chars))
             candidate_loc == Strip(Lower(candidate_location.chars))
             common_words == SplitWords(job_loc) \cap SplitWords(candidate_loc)
         IN  IF job_loc = candidate_loc THEN Num(1)
             ELSE IF Contains(candidate_loc, job_loc) THEN Rat(4, 5)
             ELSE IF common_words # {} THEN Rat(3, 5)
             ELSE Rat(1, 5)

\* _calculate_location_score(job_location, candidate_location)
CalculateLocationScore(job_location, candidate_location) ==
    IF ~Truthy(job_location) \/ ~Truthy(candidate_location) THEN Rat(1, 2)
    ELSE LET job_loc == Strip(Lower(job_location.chars))
             candidate_loc == Strip(Lower(candidate_location.chars))
             common_words == SplitWords(job_loc) \cap SplitWords(candidate_loc)
         IN  IF job_loc = candidate_loc THEN Num(1)
             ELSE IF Contains(candidate_loc, job_loc) \/ Contains(job_loc, candidate_loc)
                  THEN Rat(4, 5)
             ELSE IF common_words # {} THEN Rat(3, 5)
             ELSE Rat(1, 5)

\* A faulty variant of the experience scorer: the under-qualification penalty is not
\* floored at 0.1 and not capped at 0.8.
CalculateExperienceScoreUncapped(job_exp_min, job_exp_max, candidate_exp) ==
    IF IsNone(candidate_exp) THEN Rat(1, 2)
    ELSE IF IsNone(job_exp_min) /\ IsNone(job_exp_max) THEN Num(1)
    ELSE LET lo == IF IsNone(job_exp_min) THEN Num(0) ELSE job_exp_min
             hi == IF IsNone(job_exp_max) THEN Inf ELSE job_exp_max
         IN  IF LessEq(lo, candidate_exp) /\ LessEq(candidate_exp, hi) THEN Num(1)
             ELSE IF Less(hi, candidate_exp)
                  THEN PyMax(Rat(7, 10),
                             Sub(Num(1), PyMin(Mul(Sub(candidate_exp, hi), Rat(1, 10)),
                                               Rat(3, 10))))
             ELSE Sub(Num(1), Mul(Sub(lo, candidate_exp), Rat(3, 20)))

\* A faulty variant of the experience scorer: each year of over-qualification
\* costs 0.2.
CalculateExperienceScoreSteep(job_exp_min, job_exp_max, candidate_exp) ==
    IF IsNone(candidate_exp) THEN Rat(1, 2)
    ELSE IF IsNone(job_exp_min) /\ IsNone(job_exp_max) THEN Num(1)
    ELSE LET lo == IF IsNone(job_exp_min) THEN Num(0) ELSE job_exp_min
             hi == IF IsNone(job_exp_max) THEN Inf ELSE job_exp_max
         IN  IF LessEq(lo, candidate_exp) /\ LessEq(candidate_exp, hi) THEN Num(1)
             ELSE IF Less(hi, candidate_exp)
                  THEN PyMax(Rat(7, 10),
                             Sub(Num(1), PyMin(Mul(Sub(candidate_exp, hi), Rat(1, 5)),
                                               Rat(3, 10))))
             ELSE PyMax(Rat(1, 10),
                        Sub(Num(1), PyMin(Mul(Sub(lo, candidate_exp), Rat(3, 20)),
                                          Rat(4, 5))))

\* _calculate_experience_score(job_exp_min, job_exp_max, candidate_exp)
CalculateExperienceScore(job_exp_min, job_exp_max, candidate_exp) ==
    IF IsNone(candidate_exp) THEN Rat(1, 2)
    ELSE IF IsNone(job_exp_min) /\ IsNone(job_exp_max) THEN Num(1)
    ELSE LET lo == IF IsNone(job_exp_min) THEN Num(0) ELSE job_exp_min
             hi == IF IsNone(job_exp_max) THEN Inf ELSE job_exp_max
         IN  IF LessEq(lo, candidate_exp) /\ LessEq(candidate_exp, hi) THEN Num(1)
             ELSE IF Less(hi, candidate_exp)
                  THEN \* over-qualified: penalty = min(excess * 0.1, 0.3)
                       PyMax(Rat(7, 10),
                             Sub(Num(1), PyMin(Mul(Sub(candidate_exp, hi), Rat(1, 10)),
                                               Rat(3, 10))))
             ELSE IF Less(candidate_exp, lo)
                  THEN \* under-qualified: penalty = min(gap * 0.15, 0.8)
                       PyMax(Rat(1, 10),
                             Sub(Num(1), PyMin(Mul(Sub(lo, candidate_exp), Rat(3, 20)),
                                               Rat(4, 5))))
             ELSE Rat(1, 2)

\* A faulty variant of the salary comparison: the gap is the larger of the two
\* cross-distances.
SalaryRangeScoreLargerGap(job_min, job_max, cand_min, cand_max) ==
    LET overlap_start == PyMax(job_min, cand_min)
        overlap_end == PyMin(job_max, cand_max)
        job_range == Sub(job_max, job_min)
        candidate_range == Sub(cand_max, cand_min)
        overlap_size == Sub(overlap_end, overlap_start)
        gap == PyMax(Abs(Sub(job_min, cand_max)), Abs(Sub(cand_min, job_max)))
        penalty == PyMin(Mul(Div(gap, Num(50000)), Rat(1, 5)), Rat(7, 10))
    IN  IF LessEq(overlap_start, overlap_end)
        THEN IF Less(Num(0), job_range) /\ Less(Num(0), candidate_range)
             THEN PyMin(PyMin(Div(overlap_size, job_range),
                              Div(overlap_size, candidate_range)), Num(1))
             ELSE Num(1)
        ELSE PyMax(Rat(1, 10), Sub(Num(1), penalty))

\* The salary comparison of _calculate_salary_score once the four bounds are
\* numbers (lines 294-321): overlap percentage, or a penalty for the gap.
SalaryRangeScore(job_min, job_max, cand_min, cand_max) ==
    LET overlap_start == PyMax(job_min, cand_min)
        overlap_end == PyMin(job_max, cand_max)
        job_range == Sub(job_max, job_min)
        candidate_range == Sub(cand_max, cand_min)
        overlap_size == Sub(overlap_end, overlap_start)
        gap == PyMin(Abs(Sub(job_min, cand_max)), Abs(Sub(cand_min, job_max)))
        penalty == PyMin(Mul(Div(gap, Num(50000)), Rat(1, 5)), Rat(7, 10))
    IN  IF LessEq(overlap_start, overlap_end)
        THEN IF Less(Num(0), job_range) /\ Less(Num(0), candidate_range)
             THEN PyMin(PyMin(Div(overlap_size, job_range),
                              Div(overlap_size, candidate_range)), Num(1))
             ELSE Num(1)
        ELSE PyMax(Rat(1, 10), Sub(Num(1), penalty))

\* _calculate_salary_score(job_salary_min, job_salary_max, candidate_preferences)
\* candidate_preferences is a dict; a key that is absent reads as None (.get).
\* Comparing a str preference with the job's float raises TypeError.
CalculateSalaryScore(job_salary_min, job_salary_max, candidate_preferences) ==
    LET candidate_salary_min == candidate_preferences.salary_min
        candidate_salary_max == candidate_preferences.salary_max
    IN  IF ~(Truthy(job_salary_min) \/ Truthy(job_salary_max)
             \/ Truthy(candidate_salary_min) \/ Truthy(candidate_salary_max))
        THEN Rat(1, 2)
        ELSE IF ~Truthy(candidate_salary_min) /\ ~Truthy(candidate_salary_max)
        THEN Rat(7, 10)
        ELSE IF ~Truthy(job_salary_min) /\ ~Truthy(job_salary_max)
        THEN Rat(1, 2)
        ELSE IF IsStr(candidate_salary_min) \/ IsStr(candidate_salary_max)
        THEN [kind |-> "raise", exc |-> "TypeError"]
        ELSE SalaryRangeScore(
                 IF IsNone(job_salary_min) THEN Num(0) ELSE job_salary_min,
                 IF IsNone(job_salary_max) THEN Inf ELSE job_salary_max,
                 IF IsNone(candidate_salary_min) THEN Num(0) ELSE candidate_salary_min,
                 IF IsNone(candidate_salary_max) THEN Inf ELSE candidate_salary_max)

(***************************************************************************)
(* Similarity engine and skills score                                      *)
(***************************************************************************)
\* The cosine similarity the embedding provider yields for two skill strings.
\* The provider is an external collaborator; each table is one provider.
\* Table "A" separates the skills well; table "B" gives near-synonyms the
\* same similarity, so that several candidate skills tie for the maximum.
Similarity(table, a, b) ==
    IF a = b THEN Num(1)
    ELSE IF {a, b} = {"Python", "python"} THEN Rat(7013, 10000)
    ELSE IF {a, b} \in {{"Python", "java"}, {"python", "java"}}
         THEN (IF table = "A" THEN Rat(3, 5) ELSE Rat(7013, 10000))
    ELSE Rat(2, 5)

\* similarity_matrix (lines 147-158): entry [i][j] is the similarity of
\* required skill i to candidate skill j.
SimilarityMatrix(table, required_skills, candidate_skills) ==
    [i \in 1..Len(required_skills) |->
        [j \in 1..Len(candidate_skills) |->
            Similarity(table, required_skills[i], candidate_skills[j])]]

\* np.max(row)
RowMax(row) == CHOOSE m \in {row[j] : j \in 1..Len(row)} :
                   \A j \in 1..Len(row) : LessEq(row[j], m)

\* A faulty variant of argmax: the last index holding the maximum.
ArgMaxLast(row) == CHOOSE j \in 1..Len(row) :
                       /\ row[j] = RowMax(row)
                       /\ \A k \in (j + 1)..Len(row) : row[k] # RowMax(row)

\* np.argmax(row): the first index holding the maximum.
ArgMax(row) == CHOOSE j \in 1..Len(row) :
                   /\ row[j] = RowMax(row)
                   /\ \A k \in 1..(j - 1) : row[k] # RowMax(row)

\* A faulty variant of the credit: a medium similarity is not reduced.
SkillCreditUnreduced(max_similarity) ==
    IF LessEq(Rat(1, 2), max_similarity) THEN max_similarity ELSE Num(0)

\* The credit of one required skill from its best similarity (lines 169-177).
SkillCredit(max_similarity) ==
    IF LessEq(Rat(7, 10), max_similarity) THEN max_similarity
    ELSE IF LessEq(Rat(1, 2), max_similarity) THEN Mul(max_similarity, Rat(4, 5))
    ELSE Num(0)

RECURSIVE SumSeq(_)
SumSeq(xs) == IF xs = <<>> THEN Num(0) ELSE Add(SumSeq(SubSeq(xs, 1, Len(xs) - 1)), xs[Len(xs)])

\* The sequence of f[i] for the i in 1..n that are in keep, in increasing order of i.
RECURSIVE Pick(_, _, _)
Pick(f, keep, n) ==
    IF n = 0 THEN <<>>
    ELSE IF n \in keep THEN Append(Pick(f, keep, n - 1), f[n])
    ELSE Pick(f, keep, n - 1)

\* The embedding path of _calculate_skills_score (lines 160-185).
SkillsEmbedded(similarity_matrix, required_skills, candidate_skills) ==
    LET n == Len(required_skills)
        best == [i \in 1..n |-> candidate_skills[ArgMax(similarity_matrix[i])]]
        skill_scores == [i \in 1..n |-> SkillCredit(RowMax(similarity_matrix[i]))]
        matched == {i \in 1..n : LessEq(Rat(1, 2), RowMax(similarity_matrix[i]))}
    IN  [score |-> Div(SumSeq(skill_scores), Num(n)),
         matching |-> Pick(best, matched, n),
         missing |-> Pick(required_skills, (1..n) \ matched, n)]

SeqToSet(xs) == {xs[i] : i \in 1..Len(xs)}

\* list(S): the elements of a set in some order (set iteration order).
Orderings(S) ==
    {f \in [1..Cardinality(S) -> S] : \A i, j \in 1..Cardinality(S) : f[i] = f[j] => i = j}

\* A faulty variant of the fallback: the score counts the matching required entries
\* of the list, not the distinct matching strings.
SkillsFallbackPerEntry(required_skills, candidate_skills) ==
    LET matching == SeqToSet(required_skills) \cap SeqToSet(candidate_skills)
        missing == SeqToSet(required_skills) \ SeqToSet(candidate_skills)
        hits == {i \in 1..Len(required_skills) : required_skills[i] \in matching}
    IN  {[score |-> Rat(Cardinality(hits), Len(required_skills)),
          matching |-> m, missing |-> x] :
            m \in Orderings(matching), x \in Orderings(missing)}

\* The fallback of _calculate_skills_score when the embedding call raises
\* (lines 187-194): exact set overlap; every order of list(set) is possible.
SkillsFallback(required_skills, candidate_skills) ==
    LET matching == SeqToSet(required_skills) \cap SeqToSet(candidate_skills)
        missing == SeqToSet(required_skills) \ SeqToSet(candidate_skills)
    IN  {[score |-> Rat(Cardinality(matching), Len(required_skills)),
          matching |-> m, missing |-> x] :
            m \in Orderings(matching), x \in Orderings(missing)}

\* The skill strings of the model, and the seeds of the interpreter's string
\* hash: str hashes are salted per process, so the iteration order of a set
\* of strings is fixed within one process and differs between processes.
SkillNames == <<"Python", "SQL", "python", "java">>

HashSeeds == {0, 1}

\* The place of a skill string in set iteration order under a hash seed.
HashRank(skill, seed) ==
    LET i == CHOOSE k \in 1..Len(SkillNames) : SkillNames[k] = skill
    IN  IF seed = 0 THEN i ELSE Len(SkillNames) + 1 - i

\* list(S) in a process with this hash seed.
ListOfSet(S, seed) ==
    CHOOSE f \in Orderings(S) :
        \A i, j \in 1..Cardinality(S) :
            i < j => HashRank(f[i], seed) < HashRank(f[j], seed)

\* The fallback of _calculate_skills_score (lines 187-194) in a process with
\* this hash seed: one of the returns of SkillsFallback.
SkillsFallbackInProcess(required_skills, candidate_skills, seed) ==
    LET matching == SeqToSet(required_skills) \cap SeqToSet(candidate_skills)
        missing == SeqToSet(required_skills) \ SeqToSet(candidate_skills)
    IN  [score |-> Rat(Cardinality(matching), Len(required_skills)),
         matching |-> ListOfSet(matching, seed),
         missing |-> ListOfSet(missing, seed)]

\* Whether _calculate_skills_score calls the embedding provider (lines 136-140).
CallsEmbeddings(required_skills, candidate_skills) ==
    required_skills # <<>> /\ candidate_skills # <<>>

\* A faulty variant of the skills scorer: the candidate's list is tested for
\* emptiness before the required list.
CalculateSkillsScoreCandidateFirst(similarity_matrix, embed_fails, required_skills, candidate_skills) ==
    IF candidate_skills = <<>>
    THEN {[score |-> Num(0), matching |-> <<>>, missing |-> required_skills]}
    ELSE IF required_skills = <<>>
    THEN {[score |-> Num(1), matching |-> candidate_skills, missing |-> <<>>]}
    ELSE IF embed_fails THEN SkillsFallback(required_skills, candidate_skills)
    ELSE {SkillsEmbedded(similarity_matrix, required_skills, candidate_skills)}

\* _calculate_skills_score(required_skills, candidate_skills): the set of its
\* possible returns, given the similarity matrix the embeddings yield and
\* whether the embedding call fails.
CalculateSkillsScore(similarity_matrix, embed_fails, required_skills, candidate_skills) ==
    IF required_skills = <<>>
    THEN {[score |-> Num(1), matching |-> candidate_skills, missing |-> <<>>]}
    ELSE IF candidate_skills = <<>>
    THEN {[score |-> Num(0), matching |-> <<>>, missing |-> required_skills]}
    ELSE IF embed_fails THEN SkillsFallback(required_skills, candidate_skills)
    ELSE {SkillsEmbedded(similarity_matrix, required_skills, candidate_skills)}

(***************************************************************************)
(* Explanation generator                                                   *)
(***************************************************************************)
\* What the text-generation collaborator does on one call (chain.arun):
\*   "object"     it returns the JSON object asked for
\*   "nonobject"  it returns valid JSON that is not an object (null, 42, "ok")
\*   "unparsable" it returns text that json.loads rejects
\*   "error"      the call raises
\*   "hang"       the call never completes
LLMOutcomes == {"object", "nonobject", "unparsable", "error", "hang"}

\* max(scores.values()), in the dict's insertion order.
MaxScore(scores) ==
    PyMax(PyMax(PyMax(scores.skills_score, scores.location_score),
                scores.experience_score), scores.salary_score)

\* _generate_match_reasons(job, candidate, scores) when the call returns.
\* A percentage formatted with .1% is the value rounded to three decimals.
GenerateMatchReasons(scores, llm) ==
    CASE llm = "object" ->
            [kind |-> "dict", source |-> "llm",
             summary |-> [template |-> "llm", pct |-> None],
             strengths |-> <<"llm">>, concerns |-> <<"llm">>]
      [] llm = "nonobject" ->
            [kind |-> "nondict", source |-> "llm",
             summary |-> [template |-> "llm", pct |-> None],
             strengths |-> <<>>, concerns |-> <<>>]
      [] llm = "unparsable" ->
            [kind |-> "dict", source |-> "parse_fallback",
             summary |-> [template |-> "skills match", pct |-> Round3(scores.skills_score)],
             strengths |-> <<"Skills alignment", "Experience level">>,
             concerns |-> IF Less(scores.location_score, Rat(7, 10))
                          THEN <<"Location fit">> ELSE <<>>]
      [] llm = "error" ->
            [kind |-> "dict", source |-> "error_fallback",
             summary |-> [template |-> "compatibility", pct |-> Round3(MaxScore(scores))],
             strengths |-> <<"Professional fit">>, concerns |-> <<>>]

(***************************************************************************)
(* Match aggregator                                                        *)
(***************************************************************************)
\* A faulty variant of the weighted sum: the salary weight is 0.25, so the weights
\* sum to 1.1.
WeightedHeavySalary(scores) ==
    Add(Add(Add(Mul(scores.skills_score, Rat(2, 5)),
                Mul(scores.location_score, Rat(1, 5))),
            Mul(scores.experience_score, Rat(1, 4))),
        Mul(scores.salary_score, Rat(1, 4)))

\* overall_score before rounding (lines 103-108), with self.weights.
Weighted(scores) ==
    Add(Add(Add(Mul(scores.skills_score, Rat(2, 5)),
                Mul(scores.location_score, Rat(1, 5))),
            Mul(scores.experience_score, Rat(1, 4))),
        Mul(scores.salary_score, Rat(3, 20)))

\* The scores dict handed to _generate_match_reasons (lines 111-116): the
\* four dimension scores before rounding; a raise of the salary scorer
\* propagates.
DimensionScores(job, candidate, skills) ==
    LET salary == CalculateSalaryScore(job.salary_min, job.salary_max, candidate.preferences)
    IN  IF IsRaise(salary) THEN salary
        ELSE [kind |-> "dict",
              skills_score |-> skills.score,
              location_score |-> CalculateLocationScore(job.location, candidate.location),
              experience_score |-> CalculateExperienceScore(
                  job.experience_min, job.experience_max, candidate.experience_years),
              salary_score |-> salary]

\* The dict _calculate_match_score returns (lines 118-127).
MatchScore(scores, skills, reasons) ==
    [kind |-> "dict",
     overall_score |-> Round3(Weighted(scores)),
     skills_score |-> Round3(scores.skills_score),
     location_score |-> Round3(scores.location_score),
     experience_score |-> Round3(scores.experience_score),
     salary_score |-> Round3(scores.salary_score),
     matching_skills |-> skills.matching,
     missing_skills |-> skills.missing,
     match_reasons |-> reasons]

\* The minimum overall score of a match, in thousandths (line 58).
MinThresholdMilli == 300

\* A faulty variant of the admission test: the threshold is 0.2.
AdmitsLowThreshold(match_score) == LessEq(Rat(200, 1000), match_score.overall_score)

\* match_score['overall_score'] >= 0.3 (line 58)
Admits(match_score) == LessEq(Rat(MinThresholdMilli, 1000), match_score.overall_score)

\* JobMatchCreate(...) (lines 59-70): pydantic validates the fields;
\* match_reasons must be a dict.
JobMatchCreate(job, candidate, match_score) ==
    IF match_score.match_reasons.kind # "dict"
    THEN [kind |-> "raise", exc |-> "ValidationError"]
    ELSE [kind |-> "match",
          job_id |-> job.id,
          candidate_id |-> candidate.id,
          overall_score |-> match_score.overall_score,
          skills_score |-> match_score.skills_score,
          location_score |-> match_score.location_score,
          experience_score |-> match_score.experience_score,
          salary_score |-> match_score.salary_score,
          matching_skills |-> match_score.matching_skills,
          missing_skills |-> match_score.missing_skills,
          match_reasons |-> match_score.match_reasons]

\* A stable ascending sort by overall score.
RECURSIVE SortByScoreAsc(_)
SortByScoreAsc(ms) ==
    IF ms = <<>> THEN <<>>
    ELSE LET rest == SortByScoreAsc(SubSeq(ms, 1, Len(ms) - 1))
             m == ms[Len(ms)]
             before == {i \in 1..Len(rest) : LessEq(rest[i].overall_score, m.overall_score)}
             k == Cardinality(before)
         IN  SubSeq(rest, 1, k) \o <<m>> \o SubSeq(rest, k + 1, Len(rest))

\* A faulty variant of the sort: sorted ascending and then reversed, which reverses
\* the order of matches with equal scores.
SortAscThenReverse(ms) ==
    LET asc == SortByScoreAsc(ms)
    IN  [i \in 1..Len(asc) |-> asc[Len(asc) + 1 - i]]

\* matches.sort(key=lambda x: x.overall_score, reverse=True) (line 74): a
\* stable sort, so matches with equal scores keep their order.
RECURSIVE SortByScoreDesc(_)
SortByScoreDesc(ms) ==
    IF ms = <<>> THEN <<>>
    ELSE LET rest == SortByScoreDesc(SubSeq(ms, 1, Len(ms) - 1))
             m == ms[Len(ms)]
             \* the sorted prefix is descending, so the entries >= m are a prefix
             before == {i \in 1..Len(rest) : LessEq(m.overall_score, rest[i].overall_score)}
             k == Cardinality(before)
         IN  SubSeq(rest, 1, k) \o <<m>> \o SubSeq(rest, k + 1, Len(rest))

\* matches[:top_k] for top_k >= 0 (line 75)
Take(ms, k) == SubSeq(ms, 1, IF k < Len(ms) THEN k ELSE Len(ms))

(***************************************************************************)
(* app/utils/helpers.py: calculate_match_score                             *)
(***************************************************************************)
\* A weights argument: None, or a dict given by its items.
WeightsDict(items) == [kind |-> "dict", items |-> items]

\* calculate_match_score(user_skills, job_skills, weights)
CalculateMatchScore(user_skills, job_skills, weights) ==
    IF job_skills = <<>> THEN Num(0)
    ELSE LET user_skills_normalized == [i \in 1..Len(user_skills) |-> LowerSkill(user_skills[i])]
             job_skills_normalized == [i \in 1..Len(job_skills) |-> LowerSkill(job_skills[i])]
             matching_skills == SeqToSet(user_skills_normalized)
                                    \cap SeqToSet(job_skills_normalized)
             basic_score == Rat(Cardinality(matching_skills), Len(job_skills_normalized))
             \* "if weights:" is false for None and for the empty dict
             weighted == IF IsNone(weights) \/ DOMAIN weights.items = {} THEN basic_score
                         ELSE IF "skills" \in DOMAIN weights.items
                              THEN Mul(basic_score, weights.items["skills"])
                         ELSE Mul(basic_score, Num(1))
         IN  PyMin(weighted, Num(1))

(***************************************************************************)
(* Input value objects (app/schemas/job.py, app/schemas/user.py)           *)
(***************************************************************************)
\* validate_salary / validate_experience of JobBase: a negative value is
\* rejected, None and every other number pass.
ValidateNonNegative(v) ==
    IF ~IsNone(v) /\ Less(v, Num(0)) THEN [kind |-> "raise", exc |-> "ValidationError"]
    ELSE v

\* JobCreate(...), a JobBase: the four validated fields.
JobCreate(salary_min, salary_max, experience_min, experience_max) ==
    IF \E v \in {salary_min, salary_max, experience_min, experience_max} :
           IsRaise(ValidateNonNegative(v))
    THEN [kind |-> "raise", exc |-> "ValidationError"]
    ELSE [kind |-> "JobCreate", salary_min |-> salary_min, salary_max |-> salary_max,
          experience_min |-> experience_min, experience_max |-> experience_max]

\* JobUpdate(...): the same fields, declared without validators.
JobUpdate(salary_min, salary_max, experience_min, experience_max) ==
    [kind |-> "JobUpdate", salary_min |-> salary_min, salary_max |-> salary_max,
     experience_min |-> experience_min, experience_max |-> experience_max]

\* CandidateCreate(...) / CandidateUpdate(...), a CandidateBase: no validators.
CandidateBase(experience_years, preferences) ==
    [kind |-> "CandidateBase", experience_years |-> experience_years,
     preferences |-> preferences]

(***************************************************************************)
(* Bounds and the data the runs are drawn from                             *)
(***************************************************************************)
\* The largest number of candidates in the store.
MaxPool == 2

\* The largest top_k a caller passes.
MaxTopK == 2

TopKs == {1, MaxTopK}

Loc_AbTX == Str(<<"A", "b", " ", "T", "X">>)

Loc_abtx == Str(<<"a", "b", " ", "t", "x">>)

Loc_zztx == Str(<<"z", "z", " ", "t", "x">>)

Loc_z == Str(<<"z">>)

Prefs(lo, hi) == [salary_min |-> lo, salary_max |-> hi]

\* Job rows (app/models/job.py): a job with full requirements, a job with
\* open-ended experience and salary and a repeated skill, and a job that
\* states no requirement.
Jobs ==
    {[id |-> 1, required_skills |-> <<"Python", "SQL">>, location |-> Loc_AbTX,
      experience_min |-> Num(4), experience_max |-> Num(7),
      salary_min |-> Num(50000), salary_max |-> Num(70000)],
     [id |-> 2, required_skills |-> <<"Python", "Python">>, location |-> None,
      experience_min |-> Num(9), experience_max |-> None,
      salary_min |-> Num(50000), salary_max |-> None],
     [id |-> 3, required_skills |-> <<>>, location |-> Loc_z,
      experience_min |-> None, experience_max |-> None,
      salary_min |-> None, salary_max |-> None]}

\* Candidate rows (app/models/user.py).  Candidates 1 and 2 differ in their
\* id only; 3 states an open-ended salary range; 4 has no skills and no
\* preferences; 5 stores its salary preference as text.
CandidateRow(id) ==
    CASE id \in {1, 2} ->
            [id |-> id, skills |-> <<"python", "java">>, location |-> Loc_abtx,
             experience_years |-> Num(5), preferences |-> Prefs(Num(90000), Num(100000))]
      [] id = 3 ->
            [id |-> id, skills |-> <<"Python">>, location |-> Loc_zztx,
             experience_years |-> Num(10), preferences |-> Prefs(Num(60000), None)]
      [] id = 4 ->
            [id |-> id, skills |-> <<>>, location |-> Loc_z,
             experience_years |-> Num(0), preferences |-> Prefs(None, None)]
      [] id = 5 ->
            [id |-> id, skills |-> <<"Python", "SQL">>, location |-> None,
             experience_years |-> None, preferences |-> Prefs(Str(<<"6", "0", "k">>), None)]

CandidateIds == 1..5

SimilarityTables == {"A", "B"}

(***************************************************************************)
(* State                                                                   *)
(***************************************************************************)
VARIABLES
    job,          \* the Job passed to find_matching_candidates
    store,        \* the candidates table
    similarity,   \* the embedding provider in use
    top_k,        \* the top_k argument
    pc,           \* "idle", "scoring", "awaiting_llm" or "done"
    candidates,   \* the list search_candidates returned
    idx,          \* position of the for loop in candidates (1-based)
    matches,      \* the matches list
    passed,       \* the <<candidate id, overall score>> that passed line 58
    embedding,    \* last completed call: "not_called", "ok" or "failed"
    scores,       \* last completed call: the unrounded scores dict
    match_score,  \* last completed call: the dict it returned
    result,       \* the list find_matching_candidates returned
    error,        \* the exception the except clause logged, or "none"
    call,         \* ScorerSpec: the scorer called and its arguments
    ret           \* ScorerSpec: what the call returned

\* retry_async (app/utils/helpers.py): one call of a wrapped function.
VARIABLES
    max_retries,     \* the decorator's max_retries
    attempt,         \* the loop variable of "for attempt in range(max_retries + 1)"
    outcomes,        \* what each invocation of the wrapped function did, in order
    last_exception,  \* last_exception
    sleeps,          \* the delays slept so far, in units of delay
    wrapper_pc,      \* "idle", "loop", "returned" or "raised"
    wrapper_result   \* the value returned or the exception raised by the wrapper

\* RateLimitMiddleware (app/middleware/rate_limiting.py), for one client IP.
VARIABLES
    now,             \* int(time.time())
    redis_client,    \* TRUE when the middleware connected to Redis at start-up
    zset,            \* Redis: the members of the sorted set rate_limit:<ip>
    memory_store,    \* _memory_store[key]: the list of timestamps
    admitted,        \* the times of the limited-path requests passed to call_next
    exempt_passed,   \* TRUE once a request to an exempt path was passed on
    requests,        \* the number of requests dispatched so far
    redis_failed     \* TRUE once a Redis pipeline raised

\* The matching workers (app/workers/matching_tasks.py) and the job_matches table.
VARIABLES
    job_matches,     \* the job_matches table: row i has id i
    task_queue,      \* the Celery queue: tasks waiting for a worker
    queued_by_batch, \* ids of the matches a periodic batch run queued a notification for
    sent,            \* per match id, the successful notification tasks (counted up to 2)
    enqueued         \* the process_job_matching tasks the API queued so far

matcherVars == <<job, store, similarity, top_k, pc, candidates, idx, matches, passed,
                 embedding, scores, match_score, result, error, call, ret>>

retryVars == <<max_retries, attempt, outcomes, last_exception, sleeps, wrapper_pc,
               wrapper_result>>

limiterVars == <<now, redis_client, zset, memory_store, admitted, exempt_passed,
                 requests, redis_failed>>

workerVars == <<job_matches, task_queue, queued_by_batch, sent, enqueued>>

vars == <<job, store, similarity, top_k, pc, candidates, idx, matches, passed,
          embedding, scores, match_score, result, error, call, ret,
          retryVars, limiterVars, workerVars>>

\* The components a specification does not exercise stay as constructed.
MatcherIdle ==
    /\ job = CHOOSE j \in Jobs : j.id = 3
    /\ pc = "off"
    /\ store = {}
    /\ similarity = "A"
    /\ top_k = 1
    /\ candidates = <<>>
    /\ idx = 1
    /\ matches = <<>>
    /\ passed = <<>>
    /\ embedding = "not_called"
    /\ scores = None
    /\ match_score = None
    /\ result = <<>>
    /\ error = "none"
    /\ call = None
    /\ ret = None

RetryIdle ==
    /\ max_retries = 0
    /\ attempt = 0
    /\ outcomes = <<>>
    /\ last_exception = None
    /\ sleeps = <<>>
    /\ wrapper_pc = "idle"
    /\ wrapper_result = None

LimiterIdle ==
    /\ now = 0
    /\ redis_client = FALSE
    /\ zset = {}
    /\ memory_store = <<>>
    /\ admitted = <<>>
    /\ exempt_passed = FALSE
    /\ requests = 0
    /\ redis_failed = FALSE

WorkerIdle ==
    /\ job_matches = <<>>
    /\ task_queue = EmptyBag
    /\ queued_by_batch = {}
    /\ sent = <<>>
    /\ enqueued = 0

Init ==
    /\ job \in Jobs
    /\ store \in {S \in SUBSET CandidateIds : Cardinality(S) <= MaxPool}
    /\ similarity \in SimilarityTables
    /\ top_k \in TopKs
    /\ pc = "idle"
    /\ candidates = <<>>
    /\ idx = 1
    /\ matches = <<>>
    /\ passed = <<>>
    /\ embedding = "not_called"
    /\ scores = None
    /\ match_score = None
    /\ result = <<>>
    /\ error = "none"
    /\ call = None
    /\ ret = None
    /\ RetryIdle /\ LimiterIdle /\ WorkerIdle

(***************************************************************************)
(* find_matching_candidates                                                *)
(***************************************************************************)
\* Lines 46-53: search_candidates(limit=1000) returns the rows in an order
\* the query does not fix (no ORDER BY); an empty list returns [] at once.
SearchCandidates ==
    /\ pc = "idle"
    /\ \E order \in Orderings(store) :
          candidates' = [i \in 1..Len(order) |-> CandidateRow(order[i])]
    /\ IF store = {}
       THEN pc' = "done" /\ result' = <<>>
       ELSE pc' = "scoring" /\ UNCHANGED result
    /\ UNCHANGED <<job, store, similarity, top_k, idx, matches, passed,
                   embedding, scores, match_score, error, call, ret>>
    /\ UNCHANGED <<retryVars, limiterVars, workerVars>>

\* A faulty variant of the except clause: the exception is logged and raised again.
ReturnEmptyOnErrorReraise(exc) ==
    /\ pc' = "raised"
    /\ result' = <<>>
    /\ error' = exc
    /\ UNCHANGED <<idx, matches, embedding, scores, match_score>>

\* The except clause of find_matching_candidates (lines 77-79).
ReturnEmptyOnError(exc) ==
    /\ pc' = "done"
    /\ result' = <<>>
    /\ error' = exc
    /\ UNCHANGED <<idx, matches, embedding, scores, match_score>>

\* One iteration of the for loop (lines 55-71).
ScoreCandidate ==
    /\ pc = "scoring"
    /\ idx <= Len(candidates)
    /\ \E embed_fails \in BOOLEAN, llm \in LLMOutcomes :
       \E skills \in CalculateSkillsScore(
                         SimilarityMatrix(similarity, job.required_skills,
                                          candidates[idx].skills),
                         embed_fails, job.required_skills, candidates[idx].skills) :
          LET candidate == candidates[idx]
              sc == DimensionScores(job, candidate, skills)
              ms == MatchScore(sc, skills, GenerateMatchReasons(sc, llm))
              match == JobMatchCreate(job, candidate, ms)
          IN  IF IsRaise(sc)
              THEN ReturnEmptyOnError(sc.exc) /\ UNCHANGED passed
              ELSE IF llm = "hang"
              THEN /\ pc' = "awaiting_llm"
                   /\ UNCHANGED <<idx, matches, passed, embedding, scores,
                                  match_score, result, error>>
              ELSE IF Admits(ms) /\ IsRaise(match)
              THEN /\ ReturnEmptyOnError(match.exc)
                   /\ passed' = Append(passed, <<candidate.id, ms.overall_score>>)
              ELSE /\ embedding' =
                         IF ~CallsEmbeddings(job.required_skills, candidate.skills)
                         THEN "not_called"
                         ELSE IF embed_fails THEN "failed" ELSE "ok"
                   /\ scores' = sc
                   /\ match_score' = ms
                   /\ matches' = IF Admits(ms) THEN Append(matches, match) ELSE matches
                   /\ passed' = IF Admits(ms)
                                THEN Append(passed, <<candidate.id, ms.overall_score>>)
                                ELSE passed
                   /\ idx' = idx + 1
                   /\ UNCHANGED <<pc, result, error>>
    /\ UNCHANGED <<job, store, similarity, top_k, candidates, call, ret>>
    /\ UNCHANGED <<retryVars, limiterVars, workerVars>>

\* Lines 73-75: sort by overall score, return the top K.
ReturnTopK ==
    /\ pc = "scoring"
    /\ idx > Len(candidates)
    /\ result' = Take(SortByScoreDesc(matches), top_k)
    /\ pc' = "done"
    /\ UNCHANGED <<job, store, similarity, top_k, candidates, idx, matches, passed,
                   embedding, scores, match_score, error, call, ret>>
    /\ UNCHANGED <<retryVars, limiterVars, workerVars>>

Next == SearchCandidates \/ ScoreCandidate \/ ReturnTopK

Spec == Init /\ [][Next]_vars

(***************************************************************************)
(* The scorers as pure functions: one call on inputs drawn from bounded    *)
(* sets.                                                                   *)
(***************************************************************************)
\* The largest number of years a job asks for.
MaxYears == 7

LocationInputs ==
    {None, Str(<<>>), Str(<<" ">>), Loc_AbTX, Loc_abtx, Loc_zztx, Loc_z,
     Str(<<"t", "x">>), Str(<<" ", "z", " ">>)}

JobYearsInputs == {None} \cup {Num(n) : n \in 0..MaxYears}

\* experience_years is not validated (CandidateBase), so it can be negative.
CandidateYearsInputs == {None} \cup {Num(n) : n \in -1..(MaxYears + 4)}

SalaryInputs ==
    {None, Num(0), Num(50000), Num(60000), Num(70000), Num(90000), Num(100000)}

\* preferences is a free-form dict: a value can be text.
PreferenceInputs == SalaryInputs \cup {Str(<<"6", "0", "k">>)}

RequiredSkillsInputs ==
    {<<>>, <<"Python">>, <<"Python", "SQL">>, <<"SQL", "Python">>, <<"Python", "Python">>}

CandidateSkillsInputs ==
    {<<>>, <<"Python">>, <<"python", "java">>, <<"java", "Python">>, <<"Python", "SQL">>}

\* Cosine similarities on both sides of the thresholds 0.5 and 0.7.
SimilarityInputs == {Rat(-1, 5), Rat(2, 5), Rat(1, 2), Rat(3, 5), Rat(7, 10), Num(1)}

\* Dimension scores handed to the aggregator.
ScoreInputs == {Num(0), Rat(1, 5), Rat(1, 3), Rat(1, 2), Rat(7013, 10000), Num(1)}

ScorerInit ==
    /\ job = CHOOSE j \in Jobs : j.id = 3
    /\ store = {}
    /\ similarity = "A"
    /\ top_k = 1
    /\ pc = "scorer"
    /\ candidates = <<>>
    /\ idx = 1
    /\ matches = <<>>
    /\ passed = <<>>
    /\ embedding = "not_called"
    /\ scores = None
    /\ match_score = None
    /\ result = <<>>
    /\ error = "none"
    /\ call = None
    /\ ret = None
    /\ RetryIdle /\ LimiterIdle /\ WorkerIdle

\* One call: the arguments are recorded with what it returned.
Returns(c, r) ==
    /\ pc' = "returned"
    /\ call' = c
    /\ ret' = r
    /\ UNCHANGED <<job, store, similarity, top_k, candidates, idx, matches, passed,
                   embedding, scores, match_score, result, error>>
    /\ UNCHANGED <<retryVars, limiterVars, workerVars>>

CallLocationScore ==
    /\ pc = "scorer"
    /\ \E a \in LocationInputs, b \in LocationInputs :
        Returns([fn |-> "location", job_location |-> a, candidate_location |-> b],
                CalculateLocationScore(a, b))

CallExperienceScore ==
    /\ pc = "scorer"
    /\ \E lo \in JobYearsInputs, hi \in JobYearsInputs, c \in CandidateYearsInputs :
        Returns([fn |-> "experience", job_exp_min |-> lo, job_exp_max |-> hi,
                 candidate_exp |-> c],
                CalculateExperienceScore(lo, hi, c))

CallSalaryScore ==
    /\ pc = "scorer"
    /\ \E jlo \in SalaryInputs, jhi \in SalaryInputs,
          clo \in PreferenceInputs, chi \in PreferenceInputs :
        Returns([fn |-> "salary", job_salary_min |-> jlo, job_salary_max |-> jhi,
                 candidate_preferences |-> Prefs(clo, chi)],
                CalculateSalaryScore(jlo, jhi, Prefs(clo, chi)))

CallSkillsScore ==
    /\ pc = "scorer"
    /\ \E required \in RequiredSkillsInputs, held \in CandidateSkillsInputs,
          embed_fails \in BOOLEAN :
       \E sim \in [1..Len(required) -> [1..Len(held) -> SimilarityInputs]] :
       \E r \in CalculateSkillsScore(sim, embed_fails, required, held) :
        /\ (embed_fails \/ ~CallsEmbeddings(required, held)) =>
               \A i \in 1..Len(required), j \in 1..Len(held) : sim[i][j] = Num(1)
        /\ Returns([fn |-> "skills", required_skills |-> required,
                    candidate_skills |-> held,
                    embedding |-> IF ~CallsEmbeddings(required, held) THEN "not_called"
                                  ELSE IF embed_fails THEN "failed" ELSE "ok",
                    similarity_matrix |-> sim],
                   r)

\* The aggregation of _calculate_match_score (lines 102-127) and the
\* admission test of line 58 on given dimension scores.
CallMatchScore ==
    /\ pc = "scorer"
    /\ \E s \in ScoreInputs, l \in ScoreInputs, e \in ScoreInputs,
          c \in ScoreInputs \cup {NaN}, llm \in {"unparsable", "error"} :
        LET sc == [kind |-> "dict", skills_score |-> s, location_score |-> l,
                   experience_score |-> e, salary_score |-> c]
            sk == [score |-> s, matching |-> <<>>, missing |-> <<>>]
            ms == MatchScore(sc, sk, GenerateMatchReasons(sc, llm))
        IN  Returns([fn |-> "match_score", scores |-> sc, llm |-> llm],
                    [match_score |-> ms, admitted |-> Admits(ms)])

\* _calculate_match_score(job, candidate) with the embedding call failing
\* and the text-generation call failing, in a process with this hash seed.
ScorePairOnFallbacks(j, c, seed, llm) ==
    LET skills == IF CallsEmbeddings(j.required_skills, c.skills)
                  THEN SkillsFallbackInProcess(j.required_skills, c.skills, seed)
                  ELSE CHOOSE r \in CalculateSkillsScore(<<>>, TRUE, j.required_skills,
                                                         c.skills) : TRUE
        sc == DimensionScores(j, c, skills)
    IN  IF IsRaise(sc) THEN sc
        ELSE MatchScore(sc, skills, GenerateMatchReasons(sc, llm))

\* The same pair scored twice, each call in a worker process of its own
\* (the hash seeds are equal when it is the same process).
CallScorePairTwice ==
    /\ pc = "scorer"
    /\ \E j \in Jobs, id \in CandidateIds, seed1 \in HashSeeds, seed2 \in HashSeeds,
          llm1 \in {"unparsable", "error"}, llm2 \in {"unparsable", "error"} :
        Returns([fn |-> "score_pair_twice", job |-> j, candidate |-> CandidateRow(id),
                 seeds |-> <<seed1, seed2>>, llm |-> <<llm1, llm2>>],
                [first |-> ScorePairOnFallbacks(j, CandidateRow(id), seed1, llm1),
                 second |-> ScorePairOnFallbacks(j, CandidateRow(id), seed2, llm2)])

\* _generate_match_reasons on given dimension scores, for each thing the
\* text-generation call can do and return from.
CallGenerateMatchReasons ==
    /\ pc = "scorer"
    /\ \E s \in ScoreInputs, l \in ScoreInputs, e \in ScoreInputs, c \in ScoreInputs,
          llm \in LLMOutcomes \ {"hang"} :
        LET sc == [kind |-> "dict", skills_score |-> s, location_score |-> l,
                   experience_score |-> e, salary_score |-> c]
        IN  Returns([fn |-> "match_reasons", scores |-> sc, llm |-> llm],
                    GenerateMatchReasons(sc, llm))

\* Numbers a client can send for years or for a salary.
ClientNumbers == {None, Num(-1), Num(0), Num(5)}

\* Construction of the input value objects from client data.
CallJobCreate ==
    /\ pc = "scorer"
    /\ \E slo \in ClientNumbers, shi \in ClientNumbers,
          elo \in ClientNumbers, ehi \in ClientNumbers :
        Returns([fn |-> "JobCreate", values |-> <<slo, shi, elo, ehi>>],
                JobCreate(slo, shi, elo, ehi))

CallJobUpdate ==
    /\ pc = "scorer"
    /\ \E slo \in ClientNumbers, shi \in ClientNumbers,
          elo \in ClientNumbers, ehi \in ClientNumbers :
        Returns([fn |-> "JobUpdate", values |-> <<slo, shi, elo, ehi>>],
                JobUpdate(slo, shi, elo, ehi))

CallCandidateBase ==
    /\ pc = "scorer"
    /\ \E years \in ClientNumbers, lo \in ClientNumbers, hi \in ClientNumbers :
        Returns([fn |-> "CandidateBase", values |-> <<years, lo, hi>>],
                CandidateBase(years, Prefs(lo, hi)))

\* Weights maps a caller can pass to calculate_match_score.
WeightsInputs ==
    {None, WeightsDict(<<>>), WeightsDict([k \in {"location"} |-> Rat(1, 5)])}
    \cup {WeightsDict([k \in {"skills"} |-> w]) :
            w \in {Num(-1), Num(0), Rat(4, 5), Num(1), Num(2)}}

HelperSkillsInputs ==
    {<<>>, <<"Python">>, <<"python", "java">>, <<"Python", "SQL">>, <<"Python", "python">>,
     <<"python", "sql", "java">>}

CallCalculateMatchScore ==
    /\ pc = "scorer"
    /\ \E user \in HelperSkillsInputs, wanted \in HelperSkillsInputs, w \in WeightsInputs :
        Returns([fn |-> "calculate_match_score", user_skills |-> user,
                 job_skills |-> wanted, weights |-> w],
                CalculateMatchScore(user, wanted, w))

ScorerNext ==
    \/ CallLocationScore
    \/ CallExperienceScore
    \/ CallSalaryScore
    \/ CallSkillsScore
    \/ CallMatchScore
    \/ CallScorePairTwice
    \/ CallGenerateMatchReasons
    \/ CallJobCreate
    \/ CallJobUpdate
    \/ CallCandidateBase
    \/ CallCalculateMatchScore

ScorerSpec == ScorerInit /\ [][ScorerNext]_vars

(***************************************************************************)
(* retry_async (app/utils/helpers.py lines 197-220)                        *)
(***************************************************************************)
\* The largest max_retries a function is wrapped with.
MaxRetries == 3

\* Exceptions the wrapped function raises.
WrappedExceptions == {"ValueError", "ConnectionError"}

\* A faulty variant of the loop range: range(max_retries).
RetryAttemptsWithoutFirst(n) == 0..(n - 1)

\* range(max_retries + 1)
RetryAttempts(n) == 0..n

RECURSIVE Pow2(_)
Pow2(n) == IF n = 0 THEN 1 ELSE 2 * Pow2(n - 1)

RetryInit ==
    /\ MatcherIdle /\ LimiterIdle /\ WorkerIdle
    /\ max_retries \in 0..MaxRetries
    /\ attempt = 0
    /\ outcomes = <<>>
    /\ last_exception = None
    /\ sleeps = <<>>
    /\ wrapper_pc = "loop"
    /\ wrapper_result = None

\* One iteration of the for loop (lines 209-215): the wrapped function is
\* awaited; its value is returned, or its exception is kept and, unless
\* this was the last attempt, the wrapper sleeps delay * 2 ** attempt.
InvokeWrapped ==
    /\ wrapper_pc = "loop"
    /\ attempt \in RetryAttempts(max_retries)
    /\ \E o \in {"ok"} \cup WrappedExceptions :
          /\ outcomes' = Append(outcomes, o)
          /\ IF o = "ok"
             THEN /\ wrapper_pc' = "returned"
                  /\ wrapper_result' = [kind |-> "value", invocation |-> Len(outcomes) + 1]
                  /\ UNCHANGED <<attempt, last_exception, sleeps>>
             ELSE /\ last_exception' = [kind |-> "raise", exc |-> o,
                                        invocation |-> Len(outcomes) + 1]
                  /\ sleeps' = IF attempt < max_retries
                               THEN Append(sleeps, Pow2(attempt)) ELSE sleeps
                  /\ attempt' = attempt + 1
                  /\ UNCHANGED <<wrapper_pc, wrapper_result>>
    /\ UNCHANGED <<max_retries, matcherVars, limiterVars, workerVars>>

\* raise last_exception (line 217), after the loop.
RaiseLastException ==
    /\ wrapper_pc = "loop"
    /\ attempt \notin RetryAttempts(max_retries)
    /\ wrapper_pc' = "raised"
    /\ wrapper_result' = last_exception
    /\ UNCHANGED <<max_retries, attempt, outcomes, last_exception, sleeps,
                   matcherVars, limiterVars, workerVars>>

RetryNext == InvokeWrapped \/ RaiseLastException

RetrySpec == RetryInit /\ [][RetryNext]_vars

(***************************************************************************)
(* RateLimitMiddleware (app/middleware/rate_limiting.py), one client IP    *)
(***************************************************************************)
\* calls_per_minute of the middleware.
CallsPerMinute == 2

\* The length of the window in seconds (line 41).
WindowSeconds == 60

\* The last second of the clock, and the number of requests a run makes.
MaxClock == 120

MaxRequests == 4

\* Paths of the requests: the four exempt paths (line 36) and an API path.
ExemptPaths == {"/health", "/docs", "/redoc", "/openapi.json"}

RequestPaths == ExemptPaths \cup {"/api/v1/jobs"}

RateLimitInit ==
    /\ MatcherIdle /\ RetryIdle /\ WorkerIdle
    /\ now = 0
    /\ redis_client \in BOOLEAN
    /\ zset = {}
    /\ memory_store = <<>>
    /\ admitted = <<>>
    /\ exempt_passed = FALSE
    /\ requests = 0
    /\ redis_failed = FALSE

\* Time passes.  The Redis key expires 60 seconds after the last request
\* that reached Redis (pipe.expire(key, 60), line 75).
Tick ==
    /\ \E d \in {WindowSeconds - 1, WindowSeconds} :
          /\ now + d <= MaxClock
          /\ now' = now + d
    /\ zset' = IF zset # {} /\ \A m \in zset : m + 60 <= now' THEN {} ELSE zset
    /\ UNCHANGED <<redis_client, memory_store, admitted, exempt_passed, requests,
                   redis_failed, matcherVars, retryVars, workerVars>>

\* The test of _check_memory_rate_limit on the list after the append (line 98).
MemoryLimited(timestamps) == Len(timestamps) > CallsPerMinute

\* dispatch (lines 31-50) for one request of the client.
Dispatch ==
    /\ requests < MaxRequests
    /\ requests' = requests + 1
    /\ \E path \in RequestPaths, pipeline_raises \in BOOLEAN :
        LET window_start == now - WindowSeconds
            \* zremrangebyscore(key, 0, window_start); zcard(key)
            kept == {m \in zset : ~(0 <= m /\ m <= window_start)}
            request_count == Cardinality(kept)
            \* the list without the timestamps <= window_start, and the new one
            timestamps == Append(SelectSeq(memory_store, LAMBDA t : t > window_start), now)
        IN  IF path \in ExemptPaths
            THEN /\ ~pipeline_raises
                 /\ exempt_passed' = TRUE
                 /\ UNCHANGED <<zset, memory_store, admitted, redis_failed>>
            ELSE IF redis_client /\ pipeline_raises
            THEN \* except Exception: return False (lines 80-82)
                 /\ redis_failed' = TRUE
                 /\ admitted' = Append(admitted, now)
                 /\ UNCHANGED <<zset, memory_store, exempt_passed>>
            ELSE IF redis_client
            THEN \* zadd(key, {str(current_time): current_time}): one member per second
                 /\ zset' = kept \cup {now}
                 /\ admitted' = IF request_count >= CallsPerMinute
                                THEN admitted ELSE Append(admitted, now)
                 /\ UNCHANGED <<memory_store, exempt_passed, redis_failed>>
            ELSE /\ ~pipeline_raises
                 /\ memory_store' = timestamps
                 /\ admitted' = IF MemoryLimited(timestamps) THEN admitted
                                ELSE Append(admitted, now)
                 /\ UNCHANGED <<zset, exempt_passed, redis_failed>>
    /\ UNCHANGED <<now, redis_client, matcherVars, retryVars, workerVars>>

RateLimitNext == Tick \/ Dispatch

RateLimitSpec == RateLimitInit /\ [][RateLimitNext]_vars

(***************************************************************************)
(* Celery tasks (app/workers/matching_tasks.py) for one job                *)
(***************************************************************************)
\* The job whose matching is queued, and the candidates its matching finds.
WorkerJobId == 1

MaxMatched == 2

\* The number of process_job_matching tasks the API queues for the job: the
\* one of create_job and the re-runs of update_job and reprocess-matching.
MaxRuns == 2

\* The largest number of JobMatch rows a run of the model stores.
MaxRows == 3

\* The limit of get_unnotified_matches (limit=100 at matching_tasks.py:192),
\* scaled to the size of the pool.
UnnotifiedLimit == 1

\* max_retries of self.retry (matching_tasks.py:36 and :100).
TaskMaxRetries == 3

\* The count of successful sends kept per match stops at this value.
MaxSends == 2

\* The matches find_matching_candidates returns for the job when the first k
\* candidates qualify: descending in score.
FoundMatches(k) ==
    [c \in 1..k |-> [job_id |-> WorkerJobId, candidate_id |-> c,
                     overall_score |-> 1000 - 100 * c]]

ProcessTask(retries) == [name |-> "process_job_matching", arg |-> WorkerJobId,
                         retries |-> retries]

SendTask(match_id, retries) == [name |-> "send_job_match_notification",
                                arg |-> match_id, retries |-> retries]

\* self.retry(exc=e, max_retries=3): the task is queued again, until the
\* retries are used up.
RetryTask(queue, task) ==
    IF task.retries < TaskMaxRetries
    THEN queue (+) SetToBag({[task EXCEPT !.retries = @ + 1]})
    ELSE queue

WorkerInit ==
    /\ MatcherIdle /\ RetryIdle /\ LimiterIdle
    /\ job_matches = <<>>
    /\ task_queue = EmptyBag
    /\ queued_by_batch = {}
    /\ sent = <<>>
    /\ enqueued = 0

\* process_job_matching.delay(job.id) in create_job, update_job and
\* reprocess_job_matching (app/api/jobs.py).
QueueJobMatching ==
    /\ enqueued < MaxRuns
    /\ enqueued' = enqueued + 1
    /\ task_queue' = task_queue (+) SetToBag({ProcessTask(0)})
    /\ UNCHANGED <<job_matches, queued_by_batch, sent,
                   matcherVars, retryVars, limiterVars>>

\* JobMatchService.bulk_create_matches: one new row per match, no lookup of
\* the rows already stored.
BulkCreateMatches(rows, created) ==
    rows \o [i \in 1..Len(created) |->
                [job_id |-> created[i].job_id,
                 candidate_id |-> created[i].candidate_id,
                 overall_score |-> created[i].overall_score,
                 is_notified |-> FALSE]]

\* A worker runs one process_job_matching task (lines 16-80).
ProcessJobMatching ==
    /\ \E task \in BagToSet(task_queue), k \in 0..MaxMatched,
          outcome \in {"done", "raises_before_commit", "raises_after_commit"} :
        LET rest == task_queue (-) SetToBag({task})
            rows == BulkCreateMatches(job_matches, FoundMatches(k))
            created_ids == (Len(job_matches) + 1)..Len(rows)
        IN  /\ task.name = "process_job_matching"
            /\ Len(job_matches) + k <= MaxRows
            /\ IF outcome = "raises_before_commit"
               THEN /\ k = 0
                    /\ task_queue' = RetryTask(rest, task)
                    /\ UNCHANGED <<job_matches, sent>>
               ELSE IF k = 0
               THEN \* if not matches: return (lines 56-58)
                    /\ outcome = "done"
                    /\ task_queue' = rest
                    /\ UNCHANGED <<job_matches, sent>>
               ELSE /\ job_matches' = rows
                    /\ sent' = sent \o [i \in 1..k |-> 0]
                    /\ task_queue' =
                         IF outcome = "done"
                         THEN rest (+) SetToBag({SendTask(m, 0) : m \in created_ids})
                         ELSE RetryTask(rest, task)
    /\ UNCHANGED <<queued_by_batch, enqueued, matcherVars, retryVars, limiterVars>>

\* A worker runs one send_job_match_notification task (lines 83-161).  The
\* send and mark_as_notified are commented out (lines 147-155): a run that
\* does not raise returns success and leaves the row as it was.
SendJobMatchNotification ==
    /\ \E task \in BagToSet(task_queue), raises \in BOOLEAN :
        LET rest == task_queue (-) SetToBag({task})
        IN  /\ task.name = "send_job_match_notification"
            /\ IF raises
               THEN /\ task_queue' = RetryTask(rest, task)
                    /\ UNCHANGED sent
               ELSE /\ task_queue' = rest
                    /\ sent' = [sent EXCEPT ![task.arg] =
                                   IF @ < MaxSends THEN @ + 1 ELSE @]
    /\ UNCHANGED <<job_matches, queued_by_batch, enqueued,
                   matcherVars, retryVars, limiterVars>>

\* The results JobMatchService.get_unnotified_matches may give: at most
\* limit rows with is_notified false, none of them below a row left out
\* (order_by desc(overall_score) leaves the order of equal scores open).
GetUnnotifiedMatches(limit) ==
    LET unnotified == {m \in 1..Len(job_matches) : ~job_matches[m].is_notified}
        size == IF Cardinality(unnotified) < limit THEN Cardinality(unnotified)
                ELSE limit
    IN  {S \in SUBSET unnotified :
            /\ Cardinality(S) = size
            /\ \A m \in S, n \in unnotified \ S :
                  job_matches[m].overall_score >= job_matches[n].overall_score}

\* The periodic batch_process_unnotified_matches task (lines 164-207), run
\* by the beat schedule once the tasks of the run before are done.
BatchProcessUnnotifiedMatches ==
    /\ \A task \in BagToSet(task_queue) : task.name # "send_job_match_notification"
    /\ \E unnotified_matches \in GetUnnotifiedMatches(UnnotifiedLimit) :
          /\ unnotified_matches # {}
          /\ task_queue' = task_queue
                             (+) SetToBag({SendTask(m, 0) : m \in unnotified_matches})
          /\ queued_by_batch' = queued_by_batch \cup unnotified_matches
    /\ UNCHANGED <<job_matches, sent, enqueued, matcherVars, retryVars, limiterVars>>

WorkerNext ==
    \/ QueueJobMatching
    \/ ProcessJobMatching
    \/ SendJobMatchNotification
    \/ BatchProcessUnnotifiedMatches

WorkerSpec == WorkerInit /\ [][WorkerNext]_vars

\* Workers take the queued tasks and the beat schedule keeps running the
\* periodic task (crontab(minute='*/15'), lines 213-218).
FairWorkerSpec ==
    /\ WorkerSpec
    /\ WF_vars(ProcessJobMatching)
    /\ WF_vars(SendJobMatchNotification)
    /\ WF_vars(BatchProcessUnnotifiedMatches)

(***************************************************************************)
(* Properties                                                              *)
(***************************************************************************)
Min2(a, b) == IF a < b THEN a ELSE b

\* 0.40*skills + 0.20*location + 0.25*experience + 0.15*compensation
ReferenceWeighted(s, l, e, c) ==
    Add(Add(Add(Mul(Rat(40, 100), s), Mul(Rat(20, 100), l)), Mul(Rat(25, 100), e)),
        Mul(Rat(15, 100), c))

\* The weighted sum of the dimension scores a match carries.
WeightedCarried(m) ==
    ReferenceWeighted(m.skills_score, m.location_score, m.experience_score, m.salary_score)

\* The candidate of the last completed _calculate_match_score call.
LastCandidate == candidates[idx - 1]

\* C1: every match in the list find_matching_candidates returns has an
\* overall score of at least the admission threshold 0.3.
C1_ResultsAboveThreshold ==
    \A i \in 1..Len(result) : LessEq(Rat(MinThresholdMilli, 1000), result[i].overall_score)

\* C1 witness: a run returned a match and left out a candidate whose score
\* was below the threshold.
C1_Witness ==
    /\ pc = "done" /\ error = "none"
    /\ Len(result) >= 1
    /\ Len(passed) < Len(candidates)

\* C2 as claimed: the overall score of every match equals the weighted sum of
\* the four dimension scores the match carries, rounded to 3 decimals.
C2_OverallOfCarriedScores ==
    \A i \in 1..Len(matches) :
        matches[i].overall_score = Round3(WeightedCarried(matches[i]))

\* C2 amended: the overall score is the weighted sum of the four unrounded
\* dimension scores, rounded to 3 decimals; each carried dimension score is
\* the unrounded score rounded to 3 decimals; so the overall score of a match
\* is within 0.001 of the weighted sum of the scores it carries.
C2_OverallOfUnroundedScores ==
    /\ match_score # None =>
          /\ match_score.overall_score =
                Round3(ReferenceWeighted(scores.skills_score, scores.location_score,
                                         scores.experience_score, scores.salary_score))
          /\ match_score.skills_score = Round3(scores.skills_score)
          /\ match_score.location_score = Round3(scores.location_score)
          /\ match_score.experience_score = Round3(scores.experience_score)
          /\ match_score.salary_score = Round3(scores.salary_score)
    /\ \A i \in 1..Len(matches) :
          LessEq(Abs(Sub(matches[i].overall_score, WeightedCarried(matches[i]))),
                 Rat(1, 1000))

\* C2 witness: a match whose overall score is not the rounded weighted sum of
\* the scores it carries.
C2_Witness ==
    \E i \in 1..Len(matches) :
        matches[i].overall_score # Round3(WeightedCarried(matches[i]))

\* The position in the candidate pool of the candidate with this id.
PoolIndex(id) == CHOOSE i \in 1..Len(candidates) : candidates[i].id = id

\* C3 as claimed: the returned list is sorted by overall score descending and
\* results with equal scores are in ascending candidate-id order.
C3_SortedTiesByCandidateId ==
    pc = "done" =>
        \A i, j \in 1..Len(result) :
            i < j =>
                \/ Less(result[j].overall_score, result[i].overall_score)
                \/ /\ result[j].overall_score = result[i].overall_score
                   /\ result[i].candidate_id < result[j].candidate_id

\* C3 amended: the returned list is sorted by overall score descending and
\* results with equal scores are in the order the candidate pool supplied them.
C3_SortedTiesInPoolOrder ==
    pc = "done" =>
        \A i, j \in 1..Len(result) :
            i < j =>
                \/ Less(result[j].overall_score, result[i].overall_score)
                \/ /\ result[j].overall_score = result[i].overall_score
                   /\ PoolIndex(result[i].candidate_id) < PoolIndex(result[j].candidate_id)

\* C3 witness: two returned results with equal scores, the larger candidate
\* id first.
C3_Witness ==
    /\ pc = "done"
    /\ \E i, j \in 1..Len(result) :
          /\ i < j
          /\ result[i].overall_score = result[j].overall_score
          /\ result[i].candidate_id > result[j].candidate_id

\* C4: at most top_k results are returned, no candidate that passed the
\* threshold and was left out scores higher than a returned one, and when
\* fewer than top_k candidates passed the threshold all of them are returned.
C4_TopKBestAdmitted ==
    pc = "done" =>
        LET returned == {result[i].candidate_id : i \in 1..Len(result)}
        IN  /\ Len(result) <= top_k
            /\ \A p \in 1..Len(passed), r \in 1..Len(result) :
                  passed[p][1] \notin returned =>
                      ~Less(result[r].overall_score, passed[p][2])
            /\ Len(passed) < top_k =>
                  \A p \in 1..Len(passed) : passed[p][1] \in returned

\* C5: whatever the text-generation collaborator does, the number of results
\* is the number of candidates that reach the threshold, capped at top_k.
C5_GenerationNeverChangesLength ==
    (pc = "done" /\ error # "TypeError") =>
        Len(result) = Min2(top_k, Len(passed))

\* C6: find_matching_candidates eventually returns: the loop index only
\* grows, so every run ends, and it ends returned unless some state other
\* than "done" has no step left to take.
\* A step is enabled exactly in "idle" (SearchCandidates) and in "scoring"
\* (ScoreCandidate while idx <= Len(candidates), ReturnTopK after).
C6_NeverBlocked == pc = "done" \/ pc \in {"idle", "scoring"}

\* C7: an error raised by a scorer for one candidate leaves the matches of
\* the other candidates in the returned list.
C7_ScorerErrorIsolated ==
    (pc = "done" /\ error = "TypeError") =>
        \A i \in 1..Len(matches) :
            Len(matches) <= top_k =>
                \E r \in 1..Len(result) : result[r] = matches[i]

\* The required skills (as positions) that equal some candidate skill ignoring case.
MatchedIgnoringCase(required_skills, candidate_skills) ==
    {i \in 1..Len(required_skills) :
        \E j \in 1..Len(candidate_skills) :
            LowerSkill(required_skills[i]) = LowerSkill(candidate_skills[j])}

\* C8 as claimed: on the fallback path the skills score is the number of
\* required skills that equal some candidate skill ignoring case, divided by
\* the number of required skills; matching lists those required skills and
\* missing the others.
C8_FallbackIgnoresCase ==
    embedding = "failed" =>
        LET required == job.required_skills
            hit == MatchedIgnoringCase(required, LastCandidate.skills)
        IN  /\ scores.skills_score = Rat(Cardinality(hit), Len(required))
            /\ SeqToSet(match_score.matching_skills) = {required[i] : i \in hit}
            /\ SeqToSet(match_score.missing_skills) =
                  {required[i] : i \in (1..Len(required)) \ hit}

\* C8 amended: on the fallback path the skills score is the number of
\* distinct required skill strings that are equal, case included, to some
\* candidate skill, divided by the length of the required list; matching
\* lists each of those strings once and missing lists each other distinct
\* required string once.
C8_FallbackExactDistinct ==
    embedding = "failed" =>
        LET required == job.required_skills
            common == SeqToSet(required) \cap SeqToSet(LastCandidate.skills)
            others == SeqToSet(required) \ SeqToSet(LastCandidate.skills)
        IN  /\ scores.skills_score = Rat(Cardinality(common), Len(required))
            /\ SeqToSet(match_score.matching_skills) = common
            /\ Len(match_score.matching_skills) = Cardinality(common)
            /\ SeqToSet(match_score.missing_skills) = others
            /\ Len(match_score.missing_skills) = Cardinality(others)

\* C8 witness: the fallback scored a pair in which a required skill equals a
\* candidate skill only when case is ignored.
C8_Witness ==
    /\ embedding = "failed"
    /\ \E i \in 1..Len(job.required_skills), j \in 1..Len(LastCandidate.skills) :
          /\ job.required_skills[i] # LastCandidate.skills[j]
          /\ LowerSkill(job.required_skills[i]) = LowerSkill(LastCandidate.skills[j])

\* C9 (ScorerSpec): for every input the location score, the experience
\* score and the skills score are in [0.0, 1.0], and so is the overall
\* score of every score dict that passes the admission test, the only ones
\* a match is built from.
C9_ScoresInUnitInterval ==
    /\ (pc = "returned" /\ call.fn \in {"location", "experience"}) => InUnit(ret)
    /\ (pc = "returned" /\ call.fn = "skills") =>
          InUnit(ret.score) /\ InUnit(Round3(ret.score))
    /\ (pc = "returned" /\ call.fn = "match_score" /\ ret.admitted) =>
          /\ InUnit(ret.match_score.overall_score)
          /\ InUnit(ret.match_score.skills_score)
          /\ InUnit(ret.match_score.location_score)
          /\ InUnit(ret.match_score.experience_score)

\* C9 witness: a candidate so far below the required years that the penalty
\* cap of 0.8 decides the experience score.
C9_Witness ==
    /\ pc = "returned" /\ call.fn = "experience"
    /\ ret = Rat(1, 5)
    /\ Less(Rat(4, 5), Mul(Sub(call.job_exp_min, call.candidate_exp), Rat(3, 20)))

\* C10: the compensation score of every scored pair is a number in [0.0, 1.0].
C10_SalaryScoreInUnitInterval ==
    scores # None => InUnit(scores.salary_score)

\* C11: _calculate_match_score called twice on the same job and candidate,
\* with the embedding call failing and the text generation failing the same
\* way both times, returns the same dict: the same scores, the same matching
\* and missing skill lists in the same order, the same explanation.
C11_ScorePairDeterministic ==
    (pc = "returned" /\ call.fn = "score_pair_twice" /\ call.llm[1] = call.llm[2]) =>
        ret.first = ret.second

\* The largest similarity of required skill i to a candidate skill.
BestSimilarity(i) ==
    CHOOSE m \in {call.similarity_matrix[i][j] : j \in 1..Len(call.candidate_skills)} :
        \A j \in 1..Len(call.candidate_skills) : LessEq(call.similarity_matrix[i][j], m)

\* C12 (ScorerSpec): on the embedding path the skills score is the mean over
\* the required skills of the credit of each one's best similarity s: s for
\* s >= 0.7, 0.8*s for 0.5 <= s < 0.7, 0 for s < 0.5; the missing list is
\* the required skills with s < 0.5.
C12_EmbeddingCredits ==
    (pc = "returned" /\ call.fn = "skills" /\ call.embedding = "ok") =>
        LET n == Len(call.required_skills)
            credit == [i \in 1..n |->
                          IF LessEq(Rat(7, 10), BestSimilarity(i)) THEN BestSimilarity(i)
                          ELSE IF LessEq(Rat(1, 2), BestSimilarity(i))
                               THEN Mul(Rat(8, 10), BestSimilarity(i))
                          ELSE Num(0)]
            low == {i \in 1..n : Less(BestSimilarity(i), Rat(1, 2))}
        IN  /\ Mul(ret.score, Num(n)) = SumSeq(credit)
            /\ ret.missing = Pick(call.required_skills, low, n)
            /\ Len(ret.matching) = n - Cardinality(low)

\* C12 witness: one required skill with partial credit next to one with no
\* credit.
C12_Witness ==
    /\ pc = "returned" /\ call.fn = "skills" /\ call.embedding = "ok"
    /\ Len(call.required_skills) = 2
    /\ BestSimilarity(1) = Rat(3, 5)
    /\ BestSimilarity(2) = Rat(2, 5)
    /\ ret.score = Rat(6, 25)

\* The earliest candidate skill whose similarity to required skill i is the
\* largest of the row.
EarliestBest(i) ==
    LET j == CHOOSE j \in 1..Len(call.candidate_skills) :
                 /\ call.similarity_matrix[i][j] = BestSimilarity(i)
                 /\ \A k \in 1..Len(call.candidate_skills) :
                        call.similarity_matrix[i][k] = BestSimilarity(i) => j <= k
    IN  call.candidate_skills[j]

\* C13 (ScorerSpec): on the embedding path the best match recorded for a
\* required skill is the earliest candidate skill, in list order, among those
\* with the maximum similarity to it.
C13_EarliestBestMatch ==
    (pc = "returned" /\ call.fn = "skills" /\ call.embedding = "ok") =>
        LET n == Len(call.required_skills)
            credited == {i \in 1..n : LessEq(Rat(1, 2), BestSimilarity(i))}
        IN  ret.matching = Pick([i \in 1..n |-> EarliestBest(i)], credited, n)

\* C13 witness: two different candidate skills tie for the maximum
\* similarity to a required skill and the first of them is recorded.
C13_Witness ==
    /\ pc = "returned" /\ call.fn = "skills" /\ call.embedding = "ok"
    /\ Len(call.required_skills) = 1
    /\ call.candidate_skills = <<"python", "java">>
    /\ call.similarity_matrix[1] = <<Rat(7, 10), Rat(7, 10)>>
    /\ ret.matching = <<"python">>

\* C14 (ScorerSpec): with no required skill the skills score is 1.0 and
\* nothing is missing, whatever the candidate holds; with required skills
\* and a candidate holding none the score is 0.0 and every required skill is
\* missing; in both cases the embedding provider is not called.
C14_EmptySkillLists ==
    (pc = "returned" /\ call.fn = "skills") =>
        /\ call.required_skills = <<>> =>
              /\ ret.score = Num(1)
              /\ ret.missing = <<>>
              /\ call.embedding = "not_called"
        /\ (call.required_skills # <<>> /\ call.candidate_skills = <<>>) =>
              /\ ret.score = Num(0)
              /\ ret.missing = call.required_skills
              /\ call.embedding = "not_called"

\* C14 witness: two required skills against a candidate holding none.
C14_Witness ==
    /\ pc = "returned" /\ call.fn = "skills"
    /\ call.required_skills = <<"Python", "SQL">>
    /\ call.candidate_skills = <<>>
    /\ ret.missing = <<"Python", "SQL">>

\* A location is missing when it is None or the empty string.
LocationMissing(x) == IsNone(x) \/ x.chars = <<>>

\* The value of the first location rule that applies to two strings a and b
\* (sequences of characters) compared as they are given.
FirstLocationRule(a, b) ==
    IF a = b THEN Num(1)
    ELSE IF Contains(a, b) \/ Contains(b, a) THEN Rat(8, 10)
    ELSE IF SplitWords(a) \cap SplitWords(b) # {} THEN Rat(6, 10)
    ELSE Rat(2, 10)

\* C15 as claimed (ScorerSpec): a missing location gives 0.5; otherwise the
\* first rule that applies to the two strings with case ignored: equal 1.0,
\* one containing the other 0.8, a common whitespace-separated token 0.6,
\* otherwise 0.2.
C15_LocationRulesIgnoringCase ==
    (pc = "returned" /\ call.fn = "location") =>
        ret = IF LocationMissing(call.job_location) \/ LocationMissing(call.candidate_location)
              THEN Rat(1, 2)
              ELSE FirstLocationRule(Lower(call.job_location.chars),
                                     Lower(call.candidate_location.chars))

\* C15 amended (ScorerSpec): a missing location gives 0.5; otherwise the
\* first rule that applies to the two strings after lower-casing them and
\* removing their leading and trailing whitespace.
C15_LocationRulesNormalised ==
    (pc = "returned" /\ call.fn = "location") =>
        ret = IF LocationMissing(call.job_location) \/ LocationMissing(call.candidate_location)
              THEN Rat(1, 2)
              ELSE FirstLocationRule(Strip(Lower(call.job_location.chars)),
                                     Strip(Lower(call.candidate_location.chars)))

\* C15 witness: two locations that are equal only once the surrounding
\* whitespace is removed.
C15_Witness ==
    /\ pc = "returned" /\ call.fn = "location"
    /\ call.job_location = Str(<<" ", "z", " ">>)
    /\ call.candidate_location = Loc_z
    /\ ret = Num(1)

\* The larger and the smaller of two finite numbers.
Larger(a, b) == IF Less(a, b) THEN b ELSE a

Smaller(a, b) == IF Less(b, a) THEN b ELSE a

\* C16 (ScorerSpec): the experience score is 0.5 when the candidate's years
\* are missing; 1.0 when both job bounds are missing; otherwise, with a
\* missing minimum taken as 0 and a missing maximum as +infinity, 1.0 inside
\* [min, max], max(0.7, 1 - min((candidate - max)*0.1, 0.3)) above max, and
\* max(0.1, 1 - min((min - candidate)*0.15, 0.8)) below min.
C16_ExperienceRules ==
    (pc = "returned" /\ call.fn = "experience") =>
        LET c == call.candidate_exp
            lo == IF IsNone(call.job_exp_min) THEN Num(0) ELSE call.job_exp_min
            above == ~IsNone(call.job_exp_max) /\ Less(call.job_exp_max, c)
        IN  ret = IF IsNone(c) THEN Rat(1, 2)
                  ELSE IF IsNone(call.job_exp_min) /\ IsNone(call.job_exp_max) THEN Num(1)
                  ELSE IF LessEq(lo, c) /\ ~above THEN Num(1)
                  ELSE IF above
                       THEN Larger(Rat(7, 10),
                                   Sub(Num(1), Smaller(Mul(Sub(c, call.job_exp_max),
                                                           Rat(10, 100)), Rat(3, 10))))
                  ELSE Larger(Rat(1, 10),
                              Sub(Num(1), Smaller(Mul(Sub(lo, c), Rat(15, 100)),
                                                  Rat(8, 10))))

\* C16 witness: a job asking for 3 to 7 years scored 0.7 for a candidate
\* with 10 years.
C16_Witness ==
    /\ pc = "returned" /\ call.fn = "experience"
    /\ call.job_exp_min = Num(3) /\ call.job_exp_max = Num(7)
    /\ call.candidate_exp = Num(10)
    /\ ret = Rat(7, 10)

\* A salary bound that is stated: a number greater than 0.
StatedAmount(x) == IsNum(x) /\ Less(Num(0), x)

C18_AbsentDataOrder ==
    (pc = "returned" /\ call.fn = "salary") =>
        LET jlo == call.job_salary_min
            jhi == call.job_salary_max
            clo == call.candidate_preferences.salary_min
            chi == call.candidate_preferences.salary_max
        IN  IF IsNone(jlo) /\ IsNone(jhi) /\ IsNone(clo) /\ IsNone(chi) THEN ret = Rat(1, 2)
            ELSE IF IsNone(clo) /\ IsNone(chi) THEN ret = Rat(7, 10)
            ELSE IF IsNone(jlo) /\ IsNone(jhi) THEN ret = Rat(1, 2)
            ELSE IF IsStr(clo) \/ IsStr(chi) THEN IsRaise(ret)
            ELSE ret = SalaryRangeScore(IF IsNone(jlo) THEN Num(0) ELSE jlo,
                                        IF IsNone(jhi) THEN Inf ELSE jhi,
                                        IF IsNone(clo) THEN Num(0) ELSE clo,
                                        IF IsNone(chi) THEN Inf ELSE chi)

\* C19 (ScorerSpec): whenever _generate_match_reasons returns, it returns a
\* record (a dict) with a strengths list, a concerns list and a summary.
C19_AlwaysAnExplanation ==
    (pc = "returned" /\ call.fn = "match_reasons") =>
        /\ ret.kind = "dict"
        /\ ret.strengths \in Seq({"llm", "Skills alignment", "Experience level",
                                  "Professional fit"})
        /\ ret.concerns \in Seq({"llm", "Location fit"})
        /\ ret.summary.template \in {"llm", "skills match", "compatibility"}

\* C20 (ScorerSpec): every failure of the generation (the call raises, or
\* its response is unparsable) yields the same explanation for the same
\* scores: strengths "Skills alignment" and "Experience level" when the
\* skills score is at least 0.5, the concern "Location fit" exactly when
\* the location score is below 0.7, and a summary made from the skills-score
\* percentage.
C20_OneFallbackExplanation ==
    (pc = "returned" /\ call.fn = "match_reasons" /\ call.llm \in {"unparsable", "error"}) =>
        /\ LessEq(Rat(1, 2), call.scores.skills_score) =>
              ret.strengths = <<"Skills alignment", "Experience level">>
        /\ ret.concerns = IF Less(call.scores.location_score, Rat(7, 10))
                          THEN <<"Location fit">> ELSE <<>>
        /\ ret.summary = [template |-> "skills match",
                          pct |-> Round3(call.scores.skills_score)]

\* C21 (ScorerSpec): a job or candidate value object built from client data
\* holding a negative number of years or a negative salary is rejected, for
\* JobCreate, JobUpdate and the candidate schemas alike.
C21_InvalidInputRejected ==
    (/\ pc = "returned" /\ call.fn \in {"JobCreate", "JobUpdate", "CandidateBase"}
     /\ \E i \in 1..Len(call.values) :
            ~IsNone(call.values[i]) /\ Less(call.values[i], Num(0)))
    => IsRaise(ret)

C24_HelperScoreInUnitInterval ==
    (pc = "returned" /\ call.fn = "calculate_match_score") =>
        LET n == Len(call.job_skills)
            held == {i \in 1..n :
                        \E j \in 1..Len(call.user_skills) :
                            LowerSkill(call.user_skills[j]) = LowerSkill(call.job_skills[i])}
            weight == IF ~IsNone(call.weights) /\ "skills" \in DOMAIN call.weights.items
                      THEN call.weights.items["skills"] ELSE Num(1)
        IN  /\ InUnit(ret)
            /\ ret = IF n = 0 THEN Num(0)
                     ELSE IF Cardinality(held) = n THEN Num(1)
                     ELSE Smaller(Mul(Rat(Cardinality(held), n), weight), Num(1))

\* C29 (ScorerSpec): for non-empty required and candidate skill lists, on
\* the embedding path and on the fallback path, matching_skills and
\* missing_skills together have as many entries as there are required
\* skills, every missing skill is a required skill, and on the fallback
\* path the score is 1.0 whenever nothing is missing.
C29_RequiredSkillsAccounted ==
    (pc = "returned" /\ call.fn = "skills" /\ call.embedding \in {"ok", "failed"}) =>
        /\ Len(ret.matching) + Len(ret.missing) = Len(call.required_skills)
        /\ SeqToSet(ret.missing) \subseteq SeqToSet(call.required_skills)
        /\ (call.embedding = "failed" /\ ret.missing = <<>>) => ret.score = Num(1)

\* Two stated salary ranges [jlo, jhi] and [clo, chi] share a value.
RangesOverlap(jlo, jhi, clo, chi) == LessEq(jlo, chi) /\ LessEq(clo, jhi)

\* Four stated bounds forming two ranges.
StatedRanges(jlo, jhi, clo, chi) ==
    /\ \A x \in {jlo, jhi, clo, chi} : StatedAmount(x)
    /\ LessEq(jlo, jhi) /\ LessEq(clo, chi)

\* C30 (ScorerSpec): the compensation score of two stated ranges that share
\* a value, a single endpoint included, is at least 0.1 and at least the
\* score of every pair of stated ranges that do not overlap.
C30_OverlapNeverBelowGap ==
    (/\ pc = "returned" /\ call.fn = "salary"
     /\ StatedRanges(call.job_salary_min, call.job_salary_max,
                     call.candidate_preferences.salary_min,
                     call.candidate_preferences.salary_max)
     /\ RangesOverlap(call.job_salary_min, call.job_salary_max,
                      call.candidate_preferences.salary_min,
                      call.candidate_preferences.salary_max))
    =>
        /\ LessEq(Rat(1, 10), ret)
        /\ \A jlo \in SalaryInputs, jhi \in SalaryInputs,
              clo \in SalaryInputs, chi \in SalaryInputs :
              (StatedRanges(jlo, jhi, clo, chi) /\ ~RangesOverlap(jlo, jhi, clo, chi))
              => LessEq(CalculateSalaryScore(jlo, jhi, Prefs(clo, chi)), ret)

\* C23 (RetrySpec): the wrapped function is invoked at most max_retries + 1
\* times and never after a success; the wrapper returns the result of the
\* first successful invocation, after exactly that many invocations; it
\* raises only when max_retries + 1 invocations have all failed, and then
\* the exception of the last one.
C23_RetryUntilFirstSuccess ==
    LET k == Len(outcomes)
    IN  /\ k <= max_retries + 1
        /\ \A i \in 1..(k - 1) : outcomes[i] # "ok"
        /\ wrapper_pc = "loop" => (k = 0 \/ outcomes[k] # "ok")
        /\ wrapper_pc = "returned" =>
              (k >= 1 /\ outcomes[k] = "ok" /\ wrapper_result.kind = "value"
               /\ wrapper_result.invocation = k)
        /\ wrapper_pc = "raised" =>
              /\ k = max_retries + 1
              /\ outcomes[k] # "ok"
              /\ wrapper_result = [kind |-> "raise", exc |-> outcomes[k], invocation |-> k]

\* C23 witness: with max_retries = 2 the wrapper raised the exception of the
\* third invocation after two invocations that raised another exception.
C23_Witness ==
    /\ wrapper_pc = "raised" /\ max_retries = 2
    /\ outcomes = <<"ValueError", "ValueError", "ConnectionError">>
    /\ wrapper_result.exc = "ConnectionError"

\* The requests of the client passed to call_next in the 60 seconds ending at t.
AdmittedInWindow(t) ==
    {i \in 1..Len(admitted) : t - WindowSeconds < admitted[i] /\ admitted[i] <= t}

\* C25 (RateLimitSpec): while Redis answers, at most calls_per_minute
\* requests of the client are admitted within any 60-second window, on the
\* Redis backend and on the in-memory one.
C25_AtMostLimitPerWindow ==
    ~redis_failed =>
        \A t \in 0..MaxClock : Cardinality(AdmittedInWindow(t)) <= CallsPerMinute

\* The in-memory backend alone keeps the limit.
MemoryBackendKeepsLimit ==
    ~redis_client =>
        \A t \in 0..MaxClock : Cardinality(AdmittedInWindow(t)) <= CallsPerMinute

\* C27 (WorkerSpec): the store holds at most one JobMatch row per
\* (job, candidate) pair, whatever runs of process_job_matching took place.
C27_OneRowPerPair ==
    \A i, j \in 1..Len(job_matches) :
        (/\ job_matches[i].job_id = job_matches[j].job_id
         /\ job_matches[i].candidate_id = job_matches[j].candidate_id) => i = j

\* C28 (WorkerSpec): a match for which a send_job_match_notification task
\* completed successfully is marked as notified and has had one successful
\* notification, no more.
C28_NotifiedOnce ==
    \A m \in 1..Len(job_matches) :
        sent[m] >= 1 => job_matches[m].is_notified /\ sent[m] = 1

\* No match has two successful notifications.
AtMostOneSuccessfulSend == \A m \in 1..Len(job_matches) : sent[m] <= 1

\* C26 (FairWorkerSpec): every stored match whose is_notified flag is false
\* eventually has a notification task queued for it by a periodic run.
C26_NoMatchMissed ==
    \A m \in 1..MaxRows :
        (m <= Len(job_matches) /\ ~job_matches[m].is_notified)
            ~> (m \in queued_by_batch)

\* The same, for the runs that never store two rows of one pair.
NoMatchMissedWithoutDuplicates == []C27_OneRowPerPair => C26_NoMatchMissed
====
